---- MODULE Spec2Model ----
(***************************************************************************)
(* A model of logger.py (Pi-CAN-Dynamics): the CAN frame decoder, the      *)
(* configuration loader and the main read loop.                            *)
(*                                                                         *)
(* Conventions.                                                            *)
(*  - A Python bytes object is a sequence of integers 0..255 (1-indexed).  *)
(*  - A Python str that the code inspects (a configuration key) is a       *)
(*    sequence of one-character strings.                                   *)
(*  - A Python dict is a sequence of <<key, value>> pairs with distinct    *)
(*    keys, in insertion order.                                            *)
(*  - A Python float is an exact number counted in hundredths: the float   *)
(*    0.01 is 1, the float 1.0 is 100.  Rounding of floats is not part of  *)
(*    the model.                                                           *)
(*  - A call that may raise returns [raised |-> BOOLEAN, val |-> ...].     *)
(*  - A Python Optional is [some |-> BOOLEAN, v |-> ...].                  *)
(***************************************************************************)
EXTENDS Integers, Sequences, FiniteSets, TLC

VARIABLES
    \* the main program (main)
    pc,          \* position of main: "start", "loaded", "listening", ...
    raw_cfg,     \* the document json.load returns
    cfg,         \* load_can_config's result
    state,       \* main's state dict: signal name -> last value or None
    fieldnames,  \* the DictWriter's fieldnames
    csv_rows,    \* the rows written to the CSV file, in order
    rx,          \* the frames the bus has yielded so far, in order
    decoded,     \* the loop's local: result of the last decode_can_frame
    last_print,  \* 0 until the dashboard is printed, then 1
    line,        \* the dashboard line last printed
    \* the extractor functions called on their own
    fpc,         \* "call" before the call, "done" after it
    f_data,      \* argument data
    f_a,         \* argument offset / start_bit
    f_b,         \* argument length / bit_length
    f_ret        \* the value returned (or the exception raised)

vars == <<pc, raw_cfg, cfg, state, fieldnames, csv_rows, rx, decoded,
          last_print, line, fpc, f_data, f_a, f_b, f_ret>>

mainVars == <<pc, raw_cfg, cfg, state, fieldnames, csv_rows, rx, decoded,
              last_print, line>>

fnVars == <<fpc, f_data, f_a, f_b, f_ret>>

----------------------------------------------------------------------------
(* Bounds of the model *)

\* longest payload given to the extractors called on their own
MaxDataLen == 2

\* offsets and start bits range over -MaxNeg .. 8 * MaxDataLen + MaxOver
MaxNeg == 2

MaxOver == 2

\* lengths in bytes range over -MaxNeg .. MaxDataLen + MaxOver, in bits
\* over -MaxNeg .. MaxBitLen
MaxBitLen == 10

\* number of frames the bus yields in one run
MaxFrames == 2

----------------------------------------------------------------------------
(* Python values *)

Ok(v) == [raised |-> FALSE, val |-> v]

Raised == [raised |-> TRUE, val |-> 0]

Some(v) == [some |-> TRUE, v |-> v]

None == [some |-> FALSE, v |-> 0]

Min(a, b) == IF a < b THEN a ELSE b

Max(a, b) == IF a > b THEN a ELSE b

\* int.from_bytes(b, "little", signed=False)
RECURSIVE int_from_bytes(_)
int_from_bytes(b) ==
    IF b = <<>> THEN 0 ELSE Head(b) + 256 * int_from_bytes(Tail(b))

\* Python's slice b[lo:hi] of a sequence: a negative index counts from the
\* end, and both indices are clamped to 0 .. len(b)
PySlice(b, lo, hi) ==
    LET n == Len(b)
        l == IF lo < 0 THEN Max(lo + n, 0) ELSE Min(lo, n)
        h == IF hi < 0 THEN Max(hi + n, 0) ELSE Min(hi, n)
    IN  IF l >= h THEN <<>> ELSE SubSeq(b, l + 1, h)

----------------------------------------------------------------------------
(* The extractors *)

\* a variant that reads the bytes in big-endian order
parse_bytes_big_endian(data, offset, length) ==
    IF offset + length > Len(data)
    THEN 0
    ELSE LET s == PySlice(data, offset, offset + length)
         IN  int_from_bytes([i \in 1..Len(s) |-> s[Len(s) + 1 - i]])

parse_bytes_little_endian(data, offset, length) ==
    IF offset + length > Len(data)
    THEN 0
    ELSE int_from_bytes(PySlice(data, offset, offset + length))

\* a variant whose mask is one bit short
extract_bits_short_mask(data, start_bit, bit_length) ==
    IF start_bit < 0 \/ bit_length < 0
    THEN Raised
    ELSE Ok((int_from_bytes(data) \div (2 ^ start_bit))
              % (2 ^ Max(bit_length - 1, 0)))

\* data_int >> start_bit and 1 << bit_length raise ValueError on a negative
\* count; otherwise x >> n is x div 2^n and x & (2^n - 1) is x mod 2^n
extract_bits_little_endian(data, start_bit, bit_length) ==
    IF start_bit < 0 \/ bit_length < 0
    THEN Raised
    ELSE Ok((int_from_bytes(data) \div (2 ^ start_bit)) % (2 ^ bit_length))

----------------------------------------------------------------------------
(* Python dicts: sequences of <<key, value>> pairs with distinct keys *)

DictKeys(d) == {d[i][1] : i \in 1..Len(d)}

DictHas(d, k) == k \in DictKeys(d)

\* d[k], for a key the dict has
DictGet(d, k) == d[CHOOSE i \in 1..Len(d) : d[i][1] = k][2]

\* d.get(k, dflt)
DictGetOr(d, k, dflt) == IF DictHas(d, k) THEN DictGet(d, k) ELSE dflt

\* d[k] = v: an existing key keeps its position, a new key goes last
DictSet(d, k, v) ==
    IF DictHas(d, k)
    THEN [i \in 1..Len(d) |-> IF d[i][1] = k THEN <<k, v>> ELSE d[i]]
    ELSE Append(d, <<k, v>>)

\* d.update(e)
RECURSIVE DictUpdate(_, _)
DictUpdate(d, e) ==
    IF e = <<>> THEN d
    ELSE DictUpdate(DictSet(d, Head(e)[1], Head(e)[2]), Tail(e))

----------------------------------------------------------------------------
(* evaluate_safe_expression *)

\* Python's eval of the expressions the model's configurations use, with x
\* bound to a number counted in hundredths; the result is counted in
\* hundredths too.  "os.getpid()" names nothing the sandbox allows
\* (NameError), "x +" does not parse (SyntaxError), "100 // x" divides by
\* zero when x is 0 (ZeroDivisionError).
PyEval(expression, x) ==
    CASE expression = "max(0, x - 40)" -> Ok(Max(0, x - 4000))
      [] expression = "x * x" -> Ok((x * x) \div 100)
      [] expression = "100 // x" ->
            IF x = 0 THEN Raised ELSE Ok(100 * (10000 \div x))
      [] OTHER -> Raised

\* lines 52-58: None for an empty expression and for any exception of eval
evaluate_safe_expression(expression, value) ==
    IF expression = "" THEN None
    ELSE LET r == PyEval(expression, value)
         IN  IF r.raised THEN None ELSE Some(r.val)

----------------------------------------------------------------------------
(* load_can_config *)

DecDigits == <<"0", "1", "2", "3", "4", "5", "6", "7", "8", "9">>

LowerDigits == DecDigits \o <<"a", "b", "c", "d", "e", "f">>

UpperDigits == DecDigits \o <<"A", "B", "C", "D", "E", "F">>

\* the value of a digit character, 99 for any other character
DigitVal(c) ==
    IF \E i \in 1..16 : LowerDigits[i] = c
    THEN (CHOOSE i \in 1..16 : LowerDigits[i] = c) - 1
    ELSE IF \E i \in 1..16 : UpperDigits[i] = c
    THEN (CHOOSE i \in 1..16 : UpperDigits[i] = c) - 1
    ELSE 99

\* the number a non-empty string of digits of the base denotes
RECURSIVE DigitsValue(_, _, _)
DigitsValue(s, base, acc) ==
    IF s = <<>> THEN acc
    ELSE DigitsValue(Tail(s), base, acc * base + DigitVal(Head(s)))

AllDigits(s, base) ==
    /\ Len(s) > 0
    /\ \A i \in 1..Len(s) : DigitVal(s[i]) < base

\* s.lower().startswith("0x")
StartsWith0x(s) == Len(s) >= 2 /\ s[1] = "0" /\ s[2] \in {"x", "X"}

\* Python's int(s, base) for base 10 and 16 on strings without whitespace
\* and underscores: an optional sign, for base 16 an optional 0x prefix,
\* then at least one digit; anything else raises ValueError
PyInt(s, base) ==
    LET signed == Len(s) >= 1 /\ s[1] \in {"+", "-"}
        body == IF signed THEN Tail(s) ELSE s
        digits == IF base = 16 /\ StartsWith0x(body)
                  THEN SubSeq(body, 3, Len(body)) ELSE body
        n == DigitsValue(digits, base, 0)
    IN  IF ~AllDigits(digits, base) THEN Raised
        ELSE IF signed /\ s[1] = "-" THEN Ok(0 - n) ELSE Ok(n)

\* a variant that reads every key as decimal
NormalizeKeyDecimal(k) == PyInt(k, 10)

\* int(k, 16) if isinstance(k, str) and k.lower().startswith("0x") else int(k)
\* (json.load makes every key of the document a str)
NormalizeKey(k) == IF StartsWith0x(k) THEN PyInt(k, 16) ELSE PyInt(k, 10)

\* the dict comprehension of load_can_config, item by item
RECURSIVE LoadItems(_, _)
LoadItems(items, can_map) ==
    IF items = <<>> THEN Ok(can_map)
    ELSE LET k == NormalizeKey(Head(items)[1])
         IN  IF k.raised THEN Raised
             ELSE LoadItems(Tail(items), DictSet(can_map, k.val, Head(items)[2]))

load_can_config(raw) == LoadItems(raw, <<>>)

----------------------------------------------------------------------------
(* decode_can_frame *)

Has(signal_spec, field) == field \in DOMAIN signal_spec

\* frame_cfg.get("signals", {})
SignalsOf(frame_cfg) ==
    IF "signals" \in DOMAIN frame_cfg THEN frame_cfg.signals ELSE <<>>

\* a variant that prefers the bit range when a spec declares both modes
RawValueBitsFirst(data, signal_spec) ==
    IF Has(signal_spec, "bits")
    THEN LET r == extract_bits_little_endian(data, signal_spec.bits[1],
                                             signal_spec.bits[2])
         IN  IF r.raised THEN [kind |-> "raise", v |-> 0]
             ELSE [kind |-> "value", v |-> r.val]
    ELSE IF Has(signal_spec, "start") /\ Has(signal_spec, "length")
    THEN [kind |-> "value",
          v |-> parse_bytes_little_endian(data, signal_spec.start,
                                          signal_spec.length)]
    ELSE [kind |-> "skip", v |-> 0]

\* lines 84-93: the raw value of one signal; kind is "value", "skip" (the
\* continue) or "raise"
RawValue(data, signal_spec) ==
    IF Has(signal_spec, "start") /\ Has(signal_spec, "length")
    THEN [kind |-> "value",
          v |-> parse_bytes_little_endian(data, signal_spec.start,
                                          signal_spec.length)]
    ELSE IF Has(signal_spec, "bits")
    THEN LET r == extract_bits_little_endian(data, signal_spec.bits[1],
                                             signal_spec.bits[2])
         IN  IF r.raised THEN [kind |-> "raise", v |-> 0]
             ELSE [kind |-> "value", v |-> r.val]
    ELSE [kind |-> "skip", v |-> 0]

\* float(signal_spec.get("scale", 1.0)), in hundredths
ScaleOf(signal_spec) ==
    IF Has(signal_spec, "scale") THEN signal_spec.scale ELSE 100

\* float(signal_spec.get("offset", 0.0)), in hundredths
OffsetOf(signal_spec) ==
    IF Has(signal_spec, "offset") THEN signal_spec.offset ELSE 0

\* a variant that gives the evaluator the scaled value
SignalValueScaledInput(raw_val, signal_spec) ==
    LET value == raw_val * ScaleOf(signal_spec) + OffsetOf(signal_spec)
    IN  IF Has(signal_spec, "formula")
        THEN LET computed ==
                     evaluate_safe_expression(signal_spec.formula, value)
             IN  IF computed.some THEN computed.v ELSE value
        ELSE value

\* a variant that leaves the offset out
SignalValueNoOffset(raw_val, signal_spec) ==
    LET value == raw_val * ScaleOf(signal_spec)
    IN  IF Has(signal_spec, "formula")
        THEN LET computed ==
                     evaluate_safe_expression(signal_spec.formula, 100 * raw_val)
             IN  IF computed.some THEN computed.v ELSE value
        ELSE value

\* lines 95-102: the value of a signal whose raw value is raw_val, in
\* hundredths; the evaluator gets the raw integer (100 * raw_val hundredths)
SignalValue(raw_val, signal_spec) ==
    LET value == raw_val * ScaleOf(signal_spec) + OffsetOf(signal_spec)
    IN  IF Has(signal_spec, "formula")
        THEN LET computed ==
                     evaluate_safe_expression(signal_spec.formula, 100 * raw_val)
             IN  IF computed.some THEN computed.v ELSE value
        ELSE value

\* a variant that records a skipped signal with the value of a zero raw value
RECURSIVE DecodeSignalsNoSkip(_, _, _)
DecodeSignalsNoSkip(items, data, acc) ==
    IF items = <<>> THEN Ok(acc)
    ELSE LET signal_name == Head(items)[1]
             signal_spec == Head(items)[2]
             raw == RawValue(data, signal_spec)
             value == SignalValue(raw.v, signal_spec)
         IN  IF raw.kind = "raise" THEN Raised
             ELSE DecodeSignalsNoSkip(Tail(items), data,
                                      DictSet(acc, signal_name, Some(value)))

\* the for loop of lines 82-104 over the items of the signals dict
RECURSIVE DecodeSignals(_, _, _)
DecodeSignals(items, data, acc) ==
    IF items = <<>> THEN Ok(acc)
    ELSE LET signal_name == Head(items)[1]
             signal_spec == Head(items)[2]
             raw == RawValue(data, signal_spec)
             value == SignalValue(raw.v, signal_spec)
         IN  IF raw.kind = "raise" THEN Raised
             ELSE IF raw.kind = "skip"
             THEN DecodeSignals(Tail(items), data, acc)
             ELSE DecodeSignals(Tail(items), data,
                                DictSet(acc, signal_name, Some(value)))

NoDict == [some |-> FALSE, v |-> <<>>]

\* the result is Ok(NoDict) (the function returns None), Ok(Some(dict)) or
\* Raised
decode_can_frame(frame, config) ==
    IF ~DictHas(config, frame.arbitration_id)
    THEN Ok(NoDict)
    ELSE LET r == DecodeSignals(SignalsOf(DictGet(config, frame.arbitration_id)),
                                frame.data, <<>>)
         IN  IF r.raised THEN Raised ELSE Ok(Some(r.val))

----------------------------------------------------------------------------
(* main *)

\* the order of Python's string comparison on the signal names of the model
NameOrder == <<"brake_position_pct", "gear", "speed_kph", "steering_angle_deg">>

\* sorted(names), for a set of signal names
SortedNames(names) ==
    LET F[i \in 0..Len(NameOrder)] ==
            IF i = 0 THEN <<>>
            ELSE IF NameOrder[i] \in names THEN Append(F[i - 1], NameOrder[i])
            ELSE F[i - 1]
    IN  F[Len(NameOrder)]

\* lines 114-117: every signal name of every entry, mapped to None
RECURSIVE InitNames(_, _)
InitNames(items, acc) ==
    IF items = <<>> THEN acc
    ELSE InitNames(Tail(items), DictSet(acc, Head(items)[1], None))

\* a variant that forgets the signals of every entry but the first
InitialStateFirstEntry(config) ==
    IF config = <<>> THEN <<>>
    ELSE InitNames(SignalsOf(config[1][2]), <<>>)

RECURSIVE InitialState(_)
InitialState(config) ==
    IF config = <<>> THEN <<>>
    ELSE LET rest == InitialState(SubSeq(config, 1, Len(config) - 1))
         IN  InitNames(SignalsOf(config[Len(config)][2]), rest)

\* hex(n) for n >= 0
RECURSIVE HexDigitsOf(_)
HexDigitsOf(n) ==
    IF n < 16 THEN <<LowerDigits[n + 1]>>
    ELSE Append(HexDigitsOf(n \div 16), LowerDigits[(n % 16) + 1])

Hex(n) == <<"0", "x">> \o HexDigitsOf(n)

\* lines 140-141: if decoded: state.update(decoded)
Merge(snapshot, dec) ==
    IF dec.some /\ dec.v # <<>> THEN DictUpdate(snapshot, dec.v) ELSE snapshot

\* lines 144-148: the row of a frame; t is the number of frames received so
\* far, standing for time.time()
CsvRow(t, frame, snapshot) ==
    <<<<"t", t>>, <<"can_id", Hex(frame.arbitration_id)>>>> \o snapshot

\* x or 0, for an Optional number
OrZero(x) == IF x.some THEN x.v ELSE 0

\* int(x) of a number in hundredths: truncation towards zero
IntOf(x) == IF x >= 0 THEN x \div 100 ELSE 0 - ((0 - x) \div 100)

\* lines 155-173: the values the dashboard line shows, before formatting
\* (the signals of the model: speed, steering angle, brake, gear)
Dashboard(snapshot) ==
    LET gear == DictGetOr(snapshot, "gear", None)
    IN  [speed |-> OrZero(DictGetOr(snapshot, "speed_kph", None)),
         steer |-> OrZero(DictGetOr(snapshot, "steering_angle_deg", None)),
         brake |-> OrZero(DictGetOr(snapshot, "brake_position_pct", None)),
         gear |-> IF gear.some THEN Some(IntOf(gear.v)) ELSE None]

NoLine == [speed |-> 0, steer |-> 0, brake |-> 0, gear |-> None]

----------------------------------------------------------------------------
(* The configurations and the frames of the model *)

\* keys of the document
K_0x100 == <<"0", "x", "1", "0", "0">>

K_256 == <<"2", "5", "6">>

K_0x7FF == <<"0", "x", "7", "F", "F">>

K_100 == <<"1", "0", "0">>

K_0X1f == <<"0", "X", "1", "f">>

K_0x10 == <<"0", "x", "1", "0">>

K_16 == <<"1", "6">>

K_016 == <<"0", "1", "6">>

K_minus5 == <<"-", "5">>

K_0x == <<"0", "x">>

K_1a == <<"1", "a">>

K_x10 == <<"x", "1", "0">>

K_0xg == <<"0", "x", "g">>

K_empty == <<>>

KeyStrings ==
    {K_0x100, K_256, K_0x7FF, K_100, K_0X1f, K_0x10, K_16, K_016, K_minus5,
     K_0x, K_1a, K_x10, K_0xg, K_empty}

\* the keys of the documents with two entries
PairKeys ==
    {<<K_0x100, K_256>>, <<K_256, K_0x100>>, <<K_0x10, K_0x100>>,
     <<K_16, K_0x10>>}

\* entries of the document
E_speed ==
    [signals |-> << <<"speed_kph", [start |-> 0, length |-> 2, scale |-> 1]>> >>]

E_gear ==
    [signals |->
        << <<"gear", [bits |-> <<4, 4>>]>>,
           <<"brake_position_pct",
             [start |-> 2, length |-> 1, scale |-> 50, offset |-> -1000,
              formula |-> "max(0, x - 40)"]>> >>]

E_mixed ==
    [signals |->
        << <<"speed_kph",
             [bits |-> <<6, 5>>, offset |-> 150, formula |-> "os.getpid()"]>>,
           <<"steering_angle_deg", [scale |-> 200]>>,
           <<"gear", [start |-> 0, length |-> 1, bits |-> <<4, 4>>]>> >>]

E_div ==
    [signals |->
        << <<"gear",
             [start |-> 1, length |-> 1, scale |-> 300, formula |-> "100 // x"]>>,
           <<"speed_kph", [start |-> 6, length |-> 3, offset |-> 25]>>,
           <<"brake_position_pct", [start |-> 0, bits |-> <<0, 12>>]>> >>]

E_negative ==
    [signals |->
        << <<"steering_angle_deg", [start |-> -2, length |-> 1]>>,
           <<"brake_position_pct", [bits |-> <<-1, 4>>]>> >>]

E_formulas ==
    [signals |->
        << <<"speed_kph",
             [start |-> 0, length |-> 1, scale |-> 10, formula |-> ""]>>,
           <<"steering_angle_deg",
             [bits |-> <<0, 8>>, offset |-> 7, formula |-> "x +"]>>,
           <<"gear", [bits |-> <<8, 4>>, scale |-> 10, formula |-> "x * x"]>>,
           <<"brake_position_pct", [start |-> -2, length |-> 1]>> >>]

E_nosignals == [comment |-> "reserved"]

Entries ==
    {E_speed, E_gear, E_mixed, E_div, E_negative, E_formulas, E_nosignals}

PairEntries == {E_speed, E_mixed, E_negative}

RawConfigs ==
    {<<>>}
    \cup {<< <<k, e>> >> : k \in KeyStrings, e \in Entries}
    \cup {<< <<k1, e1>>, <<k2, e2>> >> :
            <<k1, k2>> \in PairKeys,
            <<e1, e2>> \in Entries \X PairEntries}

\* payloads of 0, 3, 8 and 9 bytes; the payload read as one integer stays
\* below 2^24, so that every number of the model fits TLC's integers
Payloads ==
    {<<>>,
     <<16, 39, 0, 0, 0, 0, 0, 0>>,
     <<171, 5, 90>>,
     <<255, 200, 7, 0, 0, 0, 0, 0, 0>>}

FrameIds == {256, 16}

\* 2047 is an identifier that few configurations of the model declare
Frames ==
    [arbitration_id : FrameIds, data : Payloads]
    \cup {[arbitration_id |-> 2047, data |-> <<171, 5, 90>>]}

----------------------------------------------------------------------------
(* The main program *)

Init ==
    /\ pc = "start"
    /\ raw_cfg \in RawConfigs
    /\ cfg = Ok(<<>>)
    /\ state = <<>>
    /\ fieldnames = <<>>
    /\ csv_rows = <<>>
    /\ rx = <<>>
    /\ decoded = NoDict
    /\ last_print = 0
    /\ line = NoLine
    /\ fpc = "idle"
    /\ f_data = <<>>
    /\ f_a = 0
    /\ f_b = 0
    /\ f_ret = Ok(0)

\* lines 111-117: load the configuration (an exception ends the program) and
\* build the state dict
Startup ==
    /\ pc = "start"
    /\ LET r == load_can_config(raw_cfg)
       IN  IF r.raised
           THEN /\ pc' = "load_error"
                /\ UNCHANGED <<cfg, state>>
           ELSE /\ cfg' = r
                /\ state' = InitialState(r.val)
                /\ pc' = "loaded"
    /\ UNCHANGED <<raw_cfg, fieldnames, csv_rows, rx, decoded, last_print,
                   line, fnVars>>

\* lines 119-135: open the bus (failure: sys.exit(1)), open the CSV file and
\* write its header
OpenBus ==
    /\ pc = "loaded"
    /\ \E opened \in BOOLEAN :
          IF opened
          THEN /\ fieldnames' = <<"t", "can_id">> \o SortedNames(DictKeys(state))
               /\ pc' = "listening"
          ELSE /\ pc' = "exit_1"
               /\ UNCHANGED fieldnames
    /\ UNCHANGED <<raw_cfg, cfg, state, csv_rows, rx, decoded, last_print,
                   line, fnVars>>

\* lines 138-174: one iteration of the loop, for the frame the bus yields.
\* An exception of decode_can_frame or of writerow (a row key that is no
\* field name) leaves the loop through the finally block and ends the
\* program.
ReceiveFrame(frame) ==
    /\ pc = "listening"
    /\ Len(rx) < MaxFrames
    /\ rx' = Append(rx, frame)
    /\ LET d == decode_can_frame(frame, cfg.val)
       IN  IF d.raised
           THEN /\ pc' = "crashed"
                /\ UNCHANGED <<decoded, state, csv_rows, last_print, line>>
           ELSE LET snapshot == Merge(state, d.val)
                    row == CsvRow(Len(rx) + 1, frame, snapshot)
                IN  /\ decoded' = d.val
                    /\ state' = snapshot
                    /\ IF DictKeys(row) \subseteq {fieldnames[i] : i \in 1..Len(fieldnames)}
                       THEN /\ csv_rows' = Append(csv_rows, row)
                            /\ pc' = "listening"
                            /\ \E elapsed \in BOOLEAN :
                                  /\ last_print = 0 => elapsed
                                  /\ IF elapsed
                                     THEN /\ last_print' = 1
                                          /\ line' = Dashboard(snapshot)
                                     ELSE UNCHANGED <<last_print, line>>
                       ELSE /\ pc' = "crashed"
                            /\ UNCHANGED <<csv_rows, last_print, line>>
    /\ UNCHANGED <<raw_cfg, cfg, fieldnames, fnVars>>

\* lines 176-186: Ctrl+C ends the loop; the finally block closes everything
Interrupt ==
    /\ pc = "listening"
    /\ pc' = "exited"
    /\ UNCHANGED <<raw_cfg, cfg, state, fieldnames, csv_rows, rx, decoded,
                   last_print, line, fnVars>>

Next ==
    \/ Startup
    \/ OpenBus
    \/ \E frame \in Frames : ReceiveFrame(frame)
    \/ Interrupt

Spec == Init /\ [][Next]_vars

----------------------------------------------------------------------------
(* The extractors called on their own, on every input within the bounds *)

ByteVals == {0, 1, 16, 39, 128, 171, 255}

RECURSIVE SeqsUpTo(_, _)
SeqsUpTo(S, n) ==
    IF n = 0 THEN {<<>>}
    ELSE LET shorter == SeqsUpTo(S, n - 1)
         IN  shorter \cup {Append(s, x) : s \in shorter, x \in S}

Buffers == SeqsUpTo(ByteVals, MaxDataLen)

ByteOffsets == (0 - MaxNeg) .. (MaxDataLen + MaxOver)

BitStarts == (0 - MaxNeg) .. (8 * MaxDataLen + MaxOver)

BitLengths == (0 - MaxNeg) .. MaxBitLen

MainIdle ==
    /\ pc = "idle"
    /\ raw_cfg = <<>>
    /\ cfg = Ok(<<>>)
    /\ state = <<>>
    /\ fieldnames = <<>>
    /\ csv_rows = <<>>
    /\ rx = <<>>
    /\ decoded = NoDict
    /\ last_print = 0
    /\ line = NoLine

InitBytes ==
    /\ MainIdle
    /\ fpc = "call"
    /\ f_data \in Buffers
    /\ f_a \in ByteOffsets
    /\ f_b \in ByteOffsets
    /\ f_ret = Ok(0)

CallParseBytes ==
    /\ fpc = "call"
    /\ f_ret' = Ok(parse_bytes_little_endian(f_data, f_a, f_b))
    /\ fpc' = "done"
    /\ UNCHANGED <<f_data, f_a, f_b, mainVars>>

SpecBytes == InitBytes /\ [][CallParseBytes]_vars

InitBits ==
    /\ MainIdle
    /\ fpc = "call"
    /\ f_data \in Buffers
    /\ f_a \in BitStarts
    /\ f_b \in BitLengths
    /\ f_ret = Ok(0)

CallExtractBits ==
    /\ fpc = "call"
    /\ f_ret' = extract_bits_little_endian(f_data, f_a, f_b)
    /\ fpc' = "done"
    /\ UNCHANGED <<f_data, f_a, f_b, mainVars>>

SpecBits == InitBits /\ [][CallExtractBits]_vars

----------------------------------------------------------------------------
(* C1: parse_bytes_little_endian *)

\* the byte at 0-based position k of the buffer, 0 where the buffer has none
ByteAt(b, k) == IF k >= 0 /\ k < Len(b) THEN b[k + 1] ELSE 0

\* the little-endian integer of the n bytes at positions k, k+1, ..., k+n-1
RECURSIVE LittleEndianOf(_, _, _)
LittleEndianOf(b, k, n) ==
    IF n <= 0 THEN 0
    ELSE ByteAt(b, k + n - 1) * (256 ^ (n - 1)) + LittleEndianOf(b, k, n - 1)

\* C1 as stated, for every offset and length: when offset + length <= len(data)
\* the result is the little-endian integer of exactly the bytes at positions
\* offset .. offset+length-1, and when offset + length > len(data) it is 0.
C1_AsStated ==
    fpc = "done" =>
        /\ f_a + f_b <= Len(f_data) =>
              f_ret = Ok(LittleEndianOf(f_data, f_a, f_b))
        /\ f_a + f_b > Len(f_data) => f_ret = Ok(0)

\* C1 amended: for every offset >= 0 and length >= 0 with
\* offset + length <= len(data) the result is the little-endian integer of
\* exactly the bytes at positions offset .. offset+length-1; for every offset
\* and length with offset + length > len(data) the result is 0.
C1_ParseBytes ==
    fpc = "done" =>
        /\ (f_a >= 0 /\ f_b >= 0 /\ f_a + f_b <= Len(f_data)) =>
              f_ret = Ok(LittleEndianOf(f_data, f_a, f_b))
        /\ f_a + f_b > Len(f_data) => f_ret = Ok(0)

\* a two-byte read inside the buffer has been made and is not zero
C1_Witness ==
    /\ fpc = "done"
    /\ f_a = 0 /\ f_b = 2 /\ f_data = <<16, 39>>
    /\ f_ret = Ok(10000)

----------------------------------------------------------------------------
(* C2: extract_bits_little_endian *)

\* bit j (0-based, little-endian) of the buffer, 0 beyond the buffer
BitAt(b, j) ==
    IF j >= 0 /\ j < 8 * Len(b)
    THEN (b[(j \div 8) + 1] \div (2 ^ (j % 8))) % 2
    ELSE 0

RECURSIVE BitsOf(_, _, _)
BitsOf(b, j, n) ==
    IF n <= 0 THEN 0
    ELSE BitAt(b, j + n - 1) * (2 ^ (n - 1)) + BitsOf(b, j, n - 1)

\* C2: for every buffer and every bit range (start_bit >= 0, bit_length >= 0)
\* the result is the number whose bit i is bit start_bit + i of the buffer
\* read as one little-endian integer, for i < bit_length, where bits beyond
\* the buffer are zero; bit_length = 0 gives 0.
C2_ExtractBits ==
    (fpc = "done" /\ f_a >= 0 /\ f_b >= 0) =>
        /\ f_ret = Ok(BitsOf(f_data, f_a, f_b))
        /\ f_b = 0 => f_ret = Ok(0)
        /\ f_a >= 8 * Len(f_data) => f_ret = Ok(0)

\* a span crossing a byte boundary and running past the end of the buffer
\* has been extracted: bits 12..19 of 0xAB 0xAB are 1010 and then zeros
C2_Witness ==
    /\ fpc = "done"
    /\ f_data = <<171, 171>> /\ f_a = 12 /\ f_b = 8
    /\ f_ret = Ok(10)

----------------------------------------------------------------------------
(* What the claims speak about *)

\* the last frame received has been decoded and decode_can_frame returned
Returned == pc \in {"listening", "exited"} /\ rx # <<>>

LastFrame == rx[Len(rx)]

Configured(frame) == DictHas(cfg.val, frame.arbitration_id)

\* the signals dict declared for the identifier of a configured frame
Declared(frame) == SignalsOf(DictGet(cfg.val, frame.arbitration_id))

ByteMode(signal_spec) ==
    "start" \in DOMAIN signal_spec /\ "length" \in DOMAIN signal_spec

BitMode(signal_spec) == "bits" \in DOMAIN signal_spec

\* the per-signal law: with raw value r, the formula's result on r where the
\* formula is present, not empty and evaluates, and r * scale + offset
\* otherwise (all in hundredths)
LawValue(r, signal_spec) ==
    LET s == IF "scale" \in DOMAIN signal_spec THEN signal_spec.scale ELSE 100
        o == IF "offset" \in DOMAIN signal_spec THEN signal_spec.offset ELSE 0
    IN  IF /\ "formula" \in DOMAIN signal_spec
           /\ signal_spec.formula # ""
           /\ ~PyEval(signal_spec.formula, 100 * r).raised
        THEN PyEval(signal_spec.formula, 100 * r).val
        ELSE r * s + o

\* the raw value the claims speak of: the bytes or the bits of the range
LawRaw(data, signal_spec) ==
    IF ByteMode(signal_spec)
    THEN parse_bytes_little_endian(data, signal_spec.start, signal_spec.length)
    ELSE extract_bits_little_endian(data, signal_spec.bits[1],
                                    signal_spec.bits[2]).val

----------------------------------------------------------------------------
(* C3: decoding never raises *)

\* C3 as stated: for every frame received and every signal spec of the
\* configuration, decode_can_frame returns a result instead of raising.
C3_NeverRaises ==
    /\ pc # "crashed"
    /\ pc \in {"listening", "exited"} =>
          \A i \in 1..Len(rx) : ~decode_can_frame(rx[i], cfg.val).raised

----------------------------------------------------------------------------
(* C4: the result of decode_can_frame *)

\* C4 as stated: None for a frame whose identifier is not configured; for a
\* configured identifier the keys of the result are exactly the signal names
\* declared for it.
C4_AsStated ==
    Returned =>
        IF Configured(LastFrame)
        THEN /\ decoded.some
             /\ DictKeys(decoded.v) = DictKeys(Declared(LastFrame))
        ELSE ~decoded.some

\* C4 amended: None for a frame whose identifier is not configured; for a
\* configured identifier the keys of the returned mapping are exactly the
\* signal names declared for it whose spec has an extraction mode (start and
\* length, or bits), and each value follows the per-signal law.
C4_DecodeFrame ==
    Returned =>
        IF Configured(LastFrame)
        THEN /\ decoded.some
             /\ DictKeys(decoded.v) =
                   {Declared(LastFrame)[i][1] : i \in
                       {j \in 1..Len(Declared(LastFrame)) :
                           \/ ByteMode(Declared(LastFrame)[j][2])
                           \/ BitMode(Declared(LastFrame)[j][2])}}
             /\ \A i \in 1..Len(Declared(LastFrame)) :
                   LET n == Declared(LastFrame)[i][1]
                       sp == Declared(LastFrame)[i][2]
                   IN  DictHas(decoded.v, n) =>
                          DictGet(decoded.v, n) =
                             Some(LawValue(LawRaw(LastFrame.data, sp), sp))
        ELSE ~decoded.some

\* a frame of a configured identifier was decoded to fewer signals than the
\* identifier declares, and to at least one
C4_Witness ==
    /\ Returned
    /\ Configured(LastFrame)
    /\ decoded.some
    /\ decoded.v # <<>>
    /\ Len(decoded.v) < Len(Declared(LastFrame))

----------------------------------------------------------------------------
(* C5: signals with a formula *)

\* C5: for a decoded signal whose spec has a formula, with raw value r: if
\* the formula is not empty and its evaluation on r (the raw integer, not the
\* scaled value) succeeds, the value is the formula's result whatever scale
\* and offset are; if the formula is empty or its evaluation fails, the value
\* is r * scale + offset, and decode_can_frame returns.
C5_Formula ==
    (Returned /\ Configured(LastFrame)) =>
        \A i \in 1..Len(Declared(LastFrame)) :
            LET n == Declared(LastFrame)[i][1]
                sp == Declared(LastFrame)[i][2]
                r == LawRaw(LastFrame.data, sp)
                e == PyEval(sp.formula, 100 * r)
            IN  ("formula" \in DOMAIN sp /\ (ByteMode(sp) \/ BitMode(sp))) =>
                   /\ DictHas(decoded.v, n)
                   /\ (sp.formula # "" /\ ~e.raised) =>
                         DictGet(decoded.v, n) = Some(e.val)
                   /\ (sp.formula = "" \/ e.raised) =>
                         DictGet(decoded.v, n) =
                            Some(r * ScaleOf(sp) + OffsetOf(sp))

\* one frame was decoded to a signal whose formula succeeded (gear = x * x of
\* raw 5, not the scaled 0.5), one whose formula is empty and one whose
\* formula does not parse (both at the scaled value)
C5_Witness ==
    /\ Returned
    /\ Configured(LastFrame)
    /\ Declared(LastFrame) = E_formulas.signals
    /\ LastFrame.data = <<171, 5, 90>>
    /\ DictGet(decoded.v, "gear") = Some(2500)
    /\ DictGet(decoded.v, "speed_kph") = Some(1710)
    /\ DictGet(decoded.v, "steering_angle_deg") = Some(17107)

----------------------------------------------------------------------------
(* C6: extraction modes at load time *)

ExactlyOneMode(signal_spec) == ByteMode(signal_spec) # BitMode(signal_spec)

Loaded == pc \in {"loaded", "listening", "exited", "exit_1", "crashed"}

----------------------------------------------------------------------------
(* C7: scale and offset *)

\* C7: a decoded signal without formula, with raw value r, scale s and
\* offset o (1 and 0 when omitted), has the value r * s + o; the byte range
\* {start 0, length 2, scale 0.01} on 10 27 00 00 00 00 00 00 has raw value
\* 10000 and value 100, and the bit range {bits [4, 4]} on a payload starting
\* with AB has raw value 10.
C7_ScaleOffset ==
    (Returned /\ Configured(LastFrame)) =>
        /\ \A i \in 1..Len(Declared(LastFrame)) :
              LET n == Declared(LastFrame)[i][1]
                  sp == Declared(LastFrame)[i][2]
                  r == LawRaw(LastFrame.data, sp)
                  s == IF "scale" \in DOMAIN sp THEN sp.scale ELSE 100
                  o == IF "offset" \in DOMAIN sp THEN sp.offset ELSE 0
              IN  ("formula" \notin DOMAIN sp /\ DictHas(decoded.v, n)) =>
                     DictGet(decoded.v, n) = Some(r * s + o)
        /\ (/\ Declared(LastFrame) = E_speed.signals
            /\ LastFrame.data = <<16, 39, 0, 0, 0, 0, 0, 0>>) =>
              /\ LawRaw(LastFrame.data, E_speed.signals[1][2]) = 10000
              /\ DictGet(decoded.v, "speed_kph") = Some(100 * 100)
        /\ (/\ Declared(LastFrame) = E_gear.signals
            /\ LastFrame.data # <<>>
            /\ LastFrame.data[1] = 171) =>
              /\ LawRaw(LastFrame.data, E_gear.signals[1][2]) = 10
              /\ DictGet(decoded.v, "gear") = Some(10 * 100)

\* the frame 0x100 with payload 10 27 00 ... was decoded against the byte
\* range of scale 0.01 and gave speed 100
C7_Witness ==
    /\ Returned
    /\ Configured(LastFrame)
    /\ LastFrame.arbitration_id = 256
    /\ Declared(LastFrame) = E_speed.signals
    /\ LastFrame.data = <<16, 39, 0, 0, 0, 0, 0, 0>>
    /\ decoded = Some(<< <<"speed_kph", Some(10000)>> >>)

----------------------------------------------------------------------------
(* C8: identifier keys *)

\* what the keys of the model denote: base 16 after the prefix 0x or 0X,
\* base 10 otherwise
KeyMeaning(k) ==
    CASE k = K_0x100 -> 256
      [] k = K_256 -> 256
      [] k = K_0x7FF -> 2047
      [] k = K_100 -> 100
      [] k = K_0X1f -> 31
      [] k = K_0x10 -> 16
      [] k = K_16 -> 16
      [] k = K_016 -> 16
      [] k = K_minus5 -> -5

Unparsable == {K_0x, K_1a, K_x10, K_0xg, K_empty}

\* C8 as stated: the load fails when a key is unparsable; otherwise every
\* key's entry is kept under the integer the key denotes.
C8_AsStated ==
    /\ pc = "load_error" <=>
          (pc # "start" /\ \E j \in 1..Len(raw_cfg) : raw_cfg[j][1] \in Unparsable)
    /\ Loaded =>
          /\ DictKeys(cfg.val) =
                {KeyMeaning(raw_cfg[j][1]) : j \in 1..Len(raw_cfg)}
          /\ \A j \in 1..Len(raw_cfg) :
                DictGet(cfg.val, KeyMeaning(raw_cfg[j][1])) = raw_cfg[j][2]

\* C8 amended: the load fails when a key is unparsable; otherwise the keys of
\* the result are the integers the document's keys denote, and under each
\* integer is kept the entry of the last key of the document that denotes it
\* (an earlier key denoting the same integer loses its entry).
C8_Normalize ==
    /\ pc = "load_error" <=>
          (pc # "start" /\ \E j \in 1..Len(raw_cfg) : raw_cfg[j][1] \in Unparsable)
    /\ Loaded =>
          /\ DictKeys(cfg.val) =
                {KeyMeaning(raw_cfg[j][1]) : j \in 1..Len(raw_cfg)}
          /\ \A j \in 1..Len(raw_cfg) :
                (\A l \in (j + 1)..Len(raw_cfg) :
                    KeyMeaning(raw_cfg[l][1]) # KeyMeaning(raw_cfg[j][1])) =>
                   DictGet(cfg.val, KeyMeaning(raw_cfg[j][1])) = raw_cfg[j][2]

\* the document with the keys "0x7FF" was loaded under 2047
C8_Witness ==
    /\ Loaded
    /\ Len(raw_cfg) = 1
    /\ raw_cfg[1][1] = K_0x7FF
    /\ DictKeys(cfg.val) = {2047}

----------------------------------------------------------------------------
(* C9: the snapshot and the CSV rows *)

\* the value decoded for signal s from the most recent of the first n frames
\* whose decode result contains s, None if there is none
RECURSIVE LastDecoded(_, _)
LastDecoded(s, n) ==
    IF n = 0 THEN None
    ELSE LET d == decode_can_frame(rx[n], cfg.val)
         IN  IF ~d.raised /\ d.val.some /\ DictHas(d.val.v, s)
             THEN DictGet(d.val.v, s)
             ELSE LastDecoded(s, n - 1)

\* the snapshot after the first n frames, as the claim describes it
SnapshotAfter(n) ==
    [i \in 1..Len(state) |-> <<state[i][1], LastDecoded(state[i][1], n)>>]

\* C9, the snapshot: state[s] is the value decoded for s from the most
\* recent frame whose result contained s, None if there is none.
C9_Snapshot ==
    pc \in {"listening", "exited", "crashed"} => state = SnapshotAfter(Len(rx))

\* C9 as stated: the snapshot is as above, and the CSV file holds exactly one
\* row per received frame, in arrival order, each carrying the snapshot as it
\* was after its frame.
C9_AsStated ==
    pc \in {"listening", "exited", "crashed"} =>
        /\ state = SnapshotAfter(Len(rx))
        /\ Len(csv_rows) = Len(rx)
        /\ \A i \in 1..Len(csv_rows) :
              csv_rows[i] = CsvRow(i, rx[i], SnapshotAfter(i))

----------------------------------------------------------------------------
(* C10: the keys of the snapshot *)

\* every signal name declared anywhere in the loaded configuration
AllDeclared ==
    UNION {DictKeys(SignalsOf(cfg.val[i][2])) : i \in 1..Len(cfg.val)}

\* C10: once the configuration is loaded, the keys of the state snapshot are
\* always exactly the signal names declared in the configuration; once the
\* CSV file is open its field names are t, can_id and those names sorted, and
\* the keys of every row are field names.
C10_Keys ==
    /\ Loaded => DictKeys(state) = AllDeclared
    /\ pc \in {"listening", "exited", "crashed"} =>
          /\ fieldnames = <<"t", "can_id">> \o SortedNames(AllDeclared)
          /\ \A i \in 1..Len(csv_rows) :
                DictKeys(csv_rows[i]) \subseteq
                    {fieldnames[j] : j \in 1..Len(fieldnames)}

\* two frames were received and merged into a snapshot of three signals, of
\* which the frames set some and left one at None
C10_Witness ==
    /\ pc = "listening"
    /\ Len(csv_rows) = 2
    /\ Cardinality(DictKeys(state)) = 3
    /\ \E i \in 1..Len(state) : state[i][2].some
    /\ \E i \in 1..Len(state) : ~state[i][2].some

====
